---- MODULE Spec2Model ----
(***************************************************************************)
(* A model of ResNet-Horovod/imagenet_utils.py: the validation sharding of *)
(* get_val_dataflow, the trial loop of GoogleNetResize._augment, the       *)
(* strict multi-thread map + batch stages that get_val_dataflow builds,    *)
(* and the accumulation loop of eval_on_ILSVRC12.                          *)
(*                                                                         *)
(* Each part has its own specification (SpecShard, SpecAug, SpecFlow,      *)
(* SpecEval); the variables of the other parts stay at their idle values.  *)
(***************************************************************************)
EXTENDS Integers, Sequences, FiniteSets, Bags, TLC

VARIABLES
    \* ---- sharding (get_val_dataflow, lines 115-129)
    nfiles,       \* len(files): size of the ILSVRC12 'val' file list
    num_splits,   \* the num_splits every worker process is started with
    calls,        \* split_index -> outcome of that worker's get_val_dataflow
    unsharded,    \* TRUE once a call with num_splits=None has built its ds
    \* ---- GoogleNetResize._augment (lines 32-50)
    h, w,         \* img.shape[:2]
    apc,          \* "idle" | "loop" | "returned" | "fallback" | "error"
    trial,        \* iterations of `for _ in range(10)` started so far
    ww, hh,       \* candidate crop width / height of the last trial
    x1, y1,       \* crop offset of the accepted trial
    out,          \* shape (rows, cols) of the returned image, <<0,0>> if none
    hist,         \* per trial made: did its candidate fit (hh <= h, ww <= w)
    \* ---- MultiThreadMapData(strict=True) + BatchData (lines 130-141)
    input,        \* the datapoints of ds, in order: <<fname, cls>>
    batch_size,   \* batch_size argument
    parallel,     \* number of map threads
    fpc,          \* main thread: "new" | "send" | "recv" | "drain" | "done"
    iterpos,      \* datapoints self._iter has produced in this pass
    drained,      \* k of the drain loop
    in_queue,     \* queue of datapoints sent to the threads
    busy,         \* thread -> the datapoint it is mapping (<<>> if none)
    out_queue,    \* queue of mapped datapoints
    holder,       \* BatchData's holder
    batches,      \* batches yielded so far
    \* ---- eval_on_ILSVRC12 (lines 152-158)
    epc,          \* "idle" | "loop" | "reported"
    acc1, acc5,   \* the two RatioCounter objects: [cnt, tot]
    results,      \* the (top1.sum(), top5.sum(), batch size) consumed so far
    report        \* the printed ratios, each a fraction <<num, den>>

shardVars == <<nfiles, num_splits, calls, unsharded>>
augVars   == <<h, w, apc, trial, ww, hh, x1, y1, out, hist>>
flowVars  == <<input, batch_size, parallel, fpc, iterpos, drained,
               in_queue, busy, out_queue, holder, batches>>
evalVars  == <<epc, acc1, acc5, results, report>>
vars      == <<shardVars, augVars, flowVars, evalVars>>

\* ------------------------------------------------------------------ bounds
MaxFiles == 7
MaxSplits == 4

\* ------------------------------------------------------- Python helpers
Min(a, b) == IF a < b THEN a ELSE b
Max(a, b) == IF a > b THEN a ELSE b

\* s[a:b] for 0 <= a, 0 <= b (0-based, end exclusive, clamped to len(s))
PySlice(s, a, b) ==
    LET lo == Min(a, Len(s))
        hi == Min(b, Len(s))
    IN  IF lo >= hi THEN <<>> ELSE SubSeq(s, lo + 1, hi)

\* ------------------------------------------------ sharding of the val set
\* list(files.get_data()) with shuffle=False: the files in index order
FileList(n) == [i \in 1..n |-> i]

NotCalled == [status |-> "not_called", listed |-> FALSE,
              start |-> 0, end |-> 0, files |-> <<>>]

\* `assert split_index < num_splits`
AssertSplitLe(split_index, ns) == split_index <= ns
AssertSplit(split_index, ns) == split_index < ns

\* split_size = len(files) // num_splits
SplitSize(n, ns) == n \div ns

\* start = split_size * split_index
Start(n, ns, split_index) == SplitSize(n, ns) * split_index

\* end = min(split_size * (split_index + 1), len(files))
EndOverlapping(n, ns, split_index) ==
    Min(SplitSize(n, ns) * (split_index + 1) + 1, n)
EndAbsorbing(n, ns, split_index) ==
    IF split_index = ns - 1 THEN n
    ELSE Min(SplitSize(n, ns) * (split_index + 1), n)
End(n, ns, split_index) ==
    Min(SplitSize(n, ns) * (split_index + 1), n)

\* The sharded branch of get_val_dataflow for one split_index.
ShardCall(n, ns, split_index) ==
    IF ~AssertSplit(split_index, ns)
    THEN [status |-> "AssertionError", listed |-> FALSE,
          start |-> 0, end |-> 0, files |-> <<>>]
    ELSE LET files == FileList(n)
             start == Start(n, ns, split_index)
             end   == End(n, ns, split_index)
         IN  [status |-> "ok", listed |-> TRUE,
              start |-> start, end |-> end,
              files |-> PySlice(files, start, end)]

\* One worker process calls get_val_dataflow(..., num_splits, split_index).
GetValDataflow(split_index) ==
    /\ calls[split_index].status = "not_called"
    /\ calls' = [calls EXCEPT ![split_index] =
                    ShardCall(nfiles, num_splits, split_index)]
    /\ UNCHANGED <<nfiles, num_splits, unsharded>>
    /\ UNCHANGED <<augVars, flowVars, evalVars>>

\* get_val_dataflow(..., num_splits=None): ds is the whole file list.
GetValDataflowUnsharded ==
    /\ ~unsharded
    /\ unsharded' = TRUE
    /\ UNCHANGED <<nfiles, num_splits, calls>>
    /\ UNCHANGED <<augVars, flowVars, evalVars>>

ShardNext ==
    \/ \E split_index \in 0..MaxSplits : GetValDataflow(split_index)
    \/ GetValDataflowUnsharded

\* ------------------------------------------------ GoogleNetResize._augment
MaxDim == 4                \* images of 1..MaxDim x 1..MaxDim pixels

Trials == 10               \* for _ in range(10)
target_shape == 224        \* target_shape=224
crop_area_fraction == 8    \* crop_area_fraction=0.08, in hundredths
aspect_ratio_low == 750    \* aspect_ratio_low=0.75, in thousandths
aspect_ratio_high == 1333  \* aspect_ratio_high=1.333, in thousandths

\* rng.uniform(crop_area_fraction, 1.0): a grid of the half-open interval,
\* in hundredths
AreaDraws == {f \in {crop_area_fraction, 25, 50, 99} :
                 crop_area_fraction <= f /\ f < 100}
\* rng.uniform(aspect_ratio_low, aspect_ratio_high), in thousandths
AspectDraws == {r \in {aspect_ratio_low, 1000, aspect_ratio_high - 1} :
                   aspect_ratio_low <= r /\ r < aspect_ratio_high}

\* int(np.sqrt(p / q) + 0.5) for p >= 0, q > 0: the largest k with
\* k - 0.5 <= sqrt(p / q), i.e. k = 0 or (2k - 1)^2 * q <= 4p
RoundSqrt(p, q) ==
    LET ks == {k \in 0..(2 * MaxDim + 2) :
                  k = 0 \/ (2 * k - 1) * (2 * k - 1) * q <= 4 * p}
    IN  CHOOSE k \in ks : \A j \in ks : j <= k

\* ww = int(np.sqrt(targetArea * aspectR) + 0.5),
\* targetArea = (f / 100) * area, aspectR = r / 1000
CandW(area, f, r) == RoundSqrt(f * area * r, 100000)
\* hh = int(np.sqrt(targetArea / aspectR) + 0.5)
CandH(area, f, r) == RoundSqrt(10 * f * area, r)

\* `if hh <= h and ww <= w`
Fits(ch, cw, ih, iw) == ch <= ih /\ cw <= iw

\* `for _ in range(10)`: is there another iteration after `n` of them
InRangeOneMore(n) == n < Trials + 1
InRange(n) == n < Trials

\* x1 = 0 if w == ww else rng.randint(0, w - ww)   (high end exclusive)
Offsets(full, part) == IF full = part THEN {0} ELSE 0..(full - part - 1)

\* number of elements of a[lo:hi] on an axis of length n (0 <= lo <= hi)
SliceLen(n, lo, hi) == Max(0, Min(hi, n) - Min(lo, n))

\* shape of img[y1:y1 + hh, x1:x1 + ww]
CropShape(ih, iw, cy, ch, cx, cw) ==
    <<SliceLen(ih, cy, cy + ch), SliceLen(iw, cx, cx + cw)>>

\* cv2.resize(src, (target_shape, target_shape)) raises on an empty src
ResizeRaises(shape) == shape[1] = 0 \/ shape[2] = 0

\* imgaug.ResizeShortestEdge(size).augment(img): shape of the result
\* scale = size * 1.0 / min(h, w); the longer edge is int(scale * edge + 0.5)
ResizeShortestEdge(size, ih, iw) ==
    LET m == Min(ih, iw)
    IN  IF ih < iw
        THEN <<size, (2 * size * iw + m) \div (2 * m)>>
        ELSE <<(2 * size * ih + m) \div (2 * m), size>>

\* imgaug.CenterCrop(size).augment(img): shape of
\* img[h0:h0 + size, w0:w0 + size], h0 = int((H - size) * 0.5)
CenterCrop(size, shape) ==
    LET h0 == (shape[1] - size) \div 2
        w0 == (shape[2] - size) \div 2
    IN  <<SliceLen(shape[1], h0, h0 + size),
          SliceLen(shape[2], w0, w0 + size)>>

\* One iteration of the loop body: lines 36-47.
Trial(f, r, swap) ==
    /\ apc = "loop"
    /\ InRange(trial)
    /\ LET area == h * w
           cw0  == CandW(area, f, r)
           ch0  == CandH(area, f, r)
           cw   == IF swap THEN ch0 ELSE cw0
           ch   == IF swap THEN cw0 ELSE ch0
       IN  /\ trial' = trial + 1
           /\ ww' = cw
           /\ hh' = ch
           /\ hist' = Append(hist, ch <= h /\ cw <= w)
           /\ IF Fits(ch, cw, h, w)
              THEN \E cx \in Offsets(w, cw), cy \in Offsets(h, ch) :
                      /\ x1' = cx
                      /\ y1' = cy
                      /\ IF ResizeRaises(CropShape(h, w, cy, ch, cx, cw))
                         THEN apc' = "error" /\ out' = out
                         ELSE /\ apc' = "returned"
                              /\ out' = <<target_shape, target_shape>>
              ELSE UNCHANGED <<x1, y1, apc, out>>
    /\ UNCHANGED <<h, w>>
    /\ UNCHANGED <<shardVars, flowVars, evalVars>>

\* Lines 48-50, reached when the loop ran out.
Fallback ==
    /\ apc = "loop"
    /\ ~InRange(trial)
    /\ out' = CenterCrop(target_shape, ResizeShortestEdge(target_shape, h, w))
    /\ apc' = "fallback"
    /\ UNCHANGED <<h, w, trial, ww, hh, x1, y1, hist>>
    /\ UNCHANGED <<shardVars, flowVars, evalVars>>

AugNext ==
    \/ \E f \in AreaDraws, r \in AspectDraws, swap \in BOOLEAN :
          Trial(f, r, swap)
    \/ Fallback

\* ------------------------- MultiThreadMapData(strict=True) and BatchData
\* get_val_dataflow wraps ds in tensorpack's MultiThreadMapData and BatchData
\* (lines 137-139). What the two stages do with the arguments given there:
\*   - reset_state() starts `parallel` threads and sends the first
\*     buffer_size datapoints to one shared input queue; every thread loops
\*     "get a datapoint, apply mapf, put the result" on one shared output
\*     queue, so results are queued in the order the threads finish;
\*   - strict mode: one pass sends a datapoint and receives a result per
\*     remaining datapoint, then receives the buffer_size results still due
\*     and, on the last of them, refills the buffer for the next pass;
\*   - BatchData collects batch_size results per batch and, with
\*     remainder=True, yields a last shorter batch;
\*   - a dataflow of no datapoint gives buffer_size 0, which the map stage
\*     does not accept: ds holds at least one datapoint here.
MaxSamples == 3     \* datapoints in ds: 1..MaxSamples
MaxBatch == 2       \* batch_size: 1..MaxBatch
MaxParallel == 2    \* map threads: 1..MaxParallel
BufferCap == 2      \* the 2000 of min(2000, ds.size()), scaled to MaxSamples
Labels == {0, 1}

Range(s) == {s[i] : i \in DOMAIN s}

\* mapf: the image is identified by the file it was decoded from
MapFLosesLabel(dp) == [im |-> dp[1], cls |-> 0]
MapF(dp) == [im |-> dp[1], cls |-> dp[2]]

\* buffer_size=min(2000, ds.size())
BufferSize(k) == Min(BufferCap, k)

\* BatchData.get_data, one datapoint arriving: <<holder, batches>> after it
BatchPut(hold, bs, dp, size) ==
    LET h2 == Append(hold, dp)
    IN  IF Len(h2) = size THEN <<<<>>, Append(bs, h2)>> ELSE <<h2, bs>>

\* BatchData.get_data at the end of the stream, remainder=True
BatchEndDropping(hold, bs) == bs
BatchEnd(hold, bs) == IF Len(hold) > 0 THEN Append(bs, hold) ELSE bs

\* _fill_buffer: the next cnt datapoints of the iterator, sent in order
FillBuffer(q, pos, cnt) == q \o SubSeq(input, pos + 1, pos + cnt)

\* reset_state(): the threads start and the buffer is filled.
ResetState ==
    /\ fpc = "new"
    /\ in_queue' = FillBuffer(in_queue, 0, BufferSize(Len(input)))
    /\ iterpos' = BufferSize(Len(input))
    /\ fpc' = "send"
    /\ UNCHANGED <<input, batch_size, parallel, drained, busy, out_queue,
                   holder, batches>>
    /\ UNCHANGED <<shardVars, augVars, evalVars>>

\* get_data_strict, `for dp in self._iter: self._send(dp)`
MainSend ==
    /\ fpc = "send"
    /\ iterpos < Len(input)
    /\ in_queue' = Append(in_queue, input[iterpos + 1])
    /\ iterpos' = iterpos + 1
    /\ fpc' = "recv"
    /\ UNCHANGED <<input, batch_size, parallel, drained, busy, out_queue,
                   holder, batches>>
    /\ UNCHANGED <<shardVars, augVars, evalVars>>

\* get_data_strict, `yield self._recv_filter_none()` into BatchData
MainRecv ==
    /\ fpc = "recv"
    /\ out_queue # <<>>
    /\ LET r == BatchPut(holder, batches, Head(out_queue), batch_size)
       IN  holder' = r[1] /\ batches' = r[2]
    /\ out_queue' = Tail(out_queue)
    /\ fpc' = "send"
    /\ UNCHANGED <<input, batch_size, parallel, iterpos, drained, in_queue,
                   busy>>
    /\ UNCHANGED <<shardVars, augVars, evalVars>>

\* get_data_strict, the iterator is exhausted: `self._iter = ...  # refresh`
IterRefresh ==
    /\ fpc = "send"
    /\ iterpos = Len(input)
    /\ iterpos' = 0
    /\ drained' = 0
    /\ fpc' = "drain"
    /\ UNCHANGED <<input, batch_size, parallel, in_queue, busy, out_queue,
                   holder, batches>>
    /\ UNCHANGED <<shardVars, augVars, evalVars>>

\* get_data_strict, `for k in range(buffer_size)`: receive, refill the
\* buffer for the next pass on the last k, yield into BatchData
Drain ==
    /\ fpc = "drain"
    /\ drained < BufferSize(Len(input))
    /\ out_queue # <<>>
    /\ LET r == BatchPut(holder, batches, Head(out_queue), batch_size)
       IN  holder' = r[1] /\ batches' = r[2]
    /\ out_queue' = Tail(out_queue)
    /\ drained' = drained + 1
    /\ IF drained = BufferSize(Len(input)) - 1
       THEN /\ in_queue' = FillBuffer(in_queue, 0, BufferSize(Len(input)))
            /\ iterpos' = BufferSize(Len(input))
       ELSE UNCHANGED <<in_queue, iterpos>>
    /\ UNCHANGED <<input, batch_size, parallel, fpc, busy>>
    /\ UNCHANGED <<shardVars, augVars, evalVars>>

\* The map generator ends; BatchData yields what is left in holder.
EndOfStream ==
    /\ fpc = "drain"
    /\ drained = BufferSize(Len(input))
    /\ batches' = BatchEnd(holder, batches)
    /\ holder' = <<>>
    /\ fpc' = "done"
    /\ UNCHANGED <<input, batch_size, parallel, iterpos, drained, in_queue,
                   busy, out_queue>>
    /\ UNCHANGED <<shardVars, augVars, evalVars>>

\* _Worker.run: dp = self.queue_get_stoppable(self.inq)
WorkerGet(t) ==
    /\ fpc \notin {"idle", "new"}
    /\ busy[t] = <<>>
    /\ in_queue # <<>>
    /\ busy' = [busy EXCEPT ![t] = <<Head(in_queue)>>]
    /\ in_queue' = Tail(in_queue)
    /\ UNCHANGED <<input, batch_size, parallel, fpc, iterpos, drained,
                   out_queue, holder, batches>>
    /\ UNCHANGED <<shardVars, augVars, evalVars>>

\* _Worker.run: obj = self.func(dp); self.queue_put_stoppable(self.outq, obj)
WorkerPut(t) ==
    /\ busy[t] # <<>>
    /\ out_queue' = Append(out_queue, MapF(busy[t][1]))
    /\ busy' = [busy EXCEPT ![t] = <<>>]
    /\ UNCHANGED <<input, batch_size, parallel, fpc, iterpos, drained,
                   in_queue, holder, batches>>
    /\ UNCHANGED <<shardVars, augVars, evalVars>>

FlowNext ==
    \/ ResetState
    \/ MainSend
    \/ MainRecv
    \/ IterRefresh
    \/ Drain
    \/ EndOfStream
    \/ \E t \in DOMAIN busy : WorkerGet(t)
    \/ \E t \in DOMAIN busy : WorkerPut(t)

\* ------------------------------------------------------- eval_on_ILSVRC12
MaxBatches == 3      \* batch results consumed: 0..MaxBatches
MaxBatchRows == 3    \* top1.shape[0]: 1..MaxBatchRows

\* RatioCounter.feed(count, total)
FeedCountsCalls(acc, count, total) ==
    [cnt |-> acc.cnt + count, tot |-> acc.tot + 1]
Feed(acc, count, total) ==
    [cnt |-> acc.cnt + count, tot |-> acc.tot + total]

\* RatioCounter.ratio, as a fraction <<numerator, denominator>>
Ratio(acc) == IF acc.tot = 0 THEN <<0, 1>> ELSE <<acc.cnt, acc.tot>>

\* One iteration of `for top1, top5 in pred.get_result()`; a sample that is
\* wrong in the top 5 is wrong in the top 1.
EvalBatch(rows, wrong1, wrong5) ==
    /\ epc = "loop"
    /\ Len(results) < MaxBatches
    /\ acc1' = Feed(acc1, wrong1, rows)
    /\ acc5' = Feed(acc5, wrong5, rows)
    /\ results' = Append(results, <<wrong1, wrong5, rows>>)
    /\ UNCHANGED <<epc, report>>
    /\ UNCHANGED <<shardVars, augVars, flowVars>>

\* The two print calls after the loop.
EvalReport ==
    /\ epc = "loop"
    /\ report' = <<Ratio(acc1), Ratio(acc5)>>
    /\ epc' = "reported"
    /\ UNCHANGED <<acc1, acc5, results>>
    /\ UNCHANGED <<shardVars, augVars, flowVars>>

EvalNext ==
    \/ \E rows \in 1..MaxBatchRows :
          \E wrong1 \in 0..rows : \E wrong5 \in 0..wrong1 :
             EvalBatch(rows, wrong1, wrong5)
    \/ EvalReport

\* ---------------------------------------------------------- specifications
InitShard ==
    /\ nfiles \in 0..MaxFiles
    /\ num_splits \in 1..MaxSplits
    /\ calls = [i \in 0..MaxSplits |-> NotCalled]
    /\ unsharded = FALSE
    /\ h = 1 /\ w = 1
    /\ apc = "idle"
    /\ trial = 0
    /\ ww = 0 /\ hh = 0 /\ x1 = 0 /\ y1 = 0
    /\ out = <<0, 0>>
    /\ hist = <<>>
    /\ input = <<>>
    /\ batch_size = 1
    /\ parallel = 1
    /\ fpc = "idle"
    /\ iterpos = 0
    /\ drained = 0
    /\ in_queue = <<>>
    /\ busy = <<>>
    /\ out_queue = <<>>
    /\ holder = <<>>
    /\ batches = <<>>
    /\ epc = "idle"
    /\ acc1 = [cnt |-> 0, tot |-> 0]
    /\ acc5 = [cnt |-> 0, tot |-> 0]
    /\ results = <<>>
    /\ report = <<>>

SpecShard == InitShard /\ [][ShardNext]_vars

InitAug ==
    /\ nfiles = 0
    /\ num_splits = 1
    /\ calls = [i \in 0..MaxSplits |-> NotCalled]
    /\ unsharded = FALSE
    /\ h \in 1..MaxDim
    /\ w \in 1..MaxDim
    /\ apc = "loop"
    /\ trial = 0
    /\ ww = 0 /\ hh = 0 /\ x1 = 0 /\ y1 = 0
    /\ out = <<0, 0>>
    /\ hist = <<>>
    /\ input = <<>>
    /\ batch_size = 1
    /\ parallel = 1
    /\ fpc = "idle"
    /\ iterpos = 0
    /\ drained = 0
    /\ in_queue = <<>>
    /\ busy = <<>>
    /\ out_queue = <<>>
    /\ holder = <<>>
    /\ batches = <<>>
    /\ epc = "idle"
    /\ acc1 = [cnt |-> 0, tot |-> 0]
    /\ acc5 = [cnt |-> 0, tot |-> 0]
    /\ results = <<>>
    /\ report = <<>>

SpecAug == InitAug /\ [][AugNext]_vars

InitFlow ==
    /\ nfiles = 0
    /\ num_splits = 1
    /\ calls = [i \in 0..MaxSplits |-> NotCalled]
    /\ unsharded = FALSE
    /\ h = 1 /\ w = 1
    /\ apc = "idle"
    /\ trial = 0
    /\ ww = 0 /\ hh = 0 /\ x1 = 0 /\ y1 = 0
    /\ out = <<0, 0>>
    /\ hist = <<>>
    /\ input \in UNION {[1..k -> {<<f, c>> : f \in 1..MaxSamples, c \in Labels}]
                          : k \in 1..MaxSamples}
    /\ \A i \in DOMAIN input : input[i][1] = i
    /\ batch_size \in 1..MaxBatch
    /\ parallel \in 1..MaxParallel
    /\ fpc = "new"
    /\ iterpos = 0
    /\ drained = 0
    /\ in_queue = <<>>
    /\ busy \in UNION {[1..n -> {<<>>}] : n \in 1..MaxParallel}
    /\ DOMAIN busy = 1..parallel
    /\ out_queue = <<>>
    /\ holder = <<>>
    /\ batches = <<>>
    /\ epc = "idle"
    /\ acc1 = [cnt |-> 0, tot |-> 0]
    /\ acc5 = [cnt |-> 0, tot |-> 0]
    /\ results = <<>>
    /\ report = <<>>

SpecFlow == InitFlow /\ [][FlowNext]_vars

InitEval ==
    /\ nfiles = 0
    /\ num_splits = 1
    /\ calls = [i \in 0..MaxSplits |-> NotCalled]
    /\ unsharded = FALSE
    /\ h = 1 /\ w = 1
    /\ apc = "idle"
    /\ trial = 0
    /\ ww = 0 /\ hh = 0 /\ x1 = 0 /\ y1 = 0
    /\ out = <<0, 0>>
    /\ hist = <<>>
    /\ input = <<>>
    /\ batch_size = 1
    /\ parallel = 1
    /\ fpc = "idle"
    /\ iterpos = 0
    /\ drained = 0
    /\ in_queue = <<>>
    /\ busy = <<>>
    /\ out_queue = <<>>
    /\ holder = <<>>
    /\ batches = <<>>
    /\ epc = "loop"
    /\ acc1 = [cnt |-> 0, tot |-> 0]
    /\ acc5 = [cnt |-> 0, tot |-> 0]
    /\ results = <<>>
    /\ report = <<>>

SpecEval == InitEval /\ [][EvalNext]_vars

\* ------------------------------------------------------------ properties
ValidIndexes == 0..(num_splits - 1)
OkCalls == {i \in ValidIndexes : calls[i].status = "ok"}
AllShardsBuilt == \A i \in ValidIndexes : calls[i].status = "ok"

\* C1: once every split_index in 0 .. num_splits-1 has built its shard, the
\* shards together hold every file of the list (their ranges cover [0, N)),
\* the last shard ending at N.
C1_ShardsCoverAllFiles ==
    AllShardsBuilt =>
        /\ UNION {Range(calls[i].files) : i \in ValidIndexes} = 1..nfiles
        /\ calls[num_splits - 1].end = nfiles

\* C2: the shards of two different split_index values share no file, and
\* each shard is the contiguous slice files[start : start + len] of the
\* file list, in the list's order.
C2_ShardsDisjointContiguous ==
    /\ \A i, j \in OkCalls :
          i # j => Range(calls[i].files) \cap Range(calls[j].files) = {}
    /\ \A i \in OkCalls :
          /\ calls[i].start + Len(calls[i].files) <= nfiles
          /\ \A k \in DOMAIN calls[i].files :
                calls[i].files[k] = FileList(nfiles)[calls[i].start + k]

C2_Witness ==
    \E i, j \in OkCalls :
        i # j /\ Len(calls[i].files) >= 2 /\ Len(calls[j].files) >= 2

\* C3: the size end - start of every shard is within 1 of
\* split_size = N // num_splits.
C3_ShardSizeWithinOne ==
    \A i \in OkCalls :
        LET size == calls[i].end - calls[i].start
            d    == size - (nfiles \div num_splits)
        IN  /\ size = Len(calls[i].files)
            /\ -1 <= d /\ d <= 1

C3_Witness ==
    /\ nfiles % num_splits >= 2
    /\ calls[num_splits - 1].status = "ok"
    /\ Len(calls[num_splits - 1].files) >= 1

\* C4: a call with split_index >= num_splits fails its assertion before the
\* file list is read: nothing is listed, sliced or handed to a dataflow.
C4_BadSplitIndexRejected ==
    \A i \in DOMAIN calls :
        (calls[i].status # "not_called" /\ i >= num_splits) =>
            /\ calls[i].status = "AssertionError"
            /\ ~calls[i].listed
            /\ calls[i].files = <<>>

C4_Witness ==
    \E i \in DOMAIN calls :
        i >= num_splits /\ calls[i].status = "AssertionError"

AugmentEnded == apc \in {"returned", "fallback", "error"}
Accepted == apc \in {"returned", "error"}

\* C5: for every image and every draw, _augment ends by returning an image
\* of target_shape x target_shape.
C5_OutputIsTargetShape ==
    AugmentEnded =>
        apc # "error" /\ out = <<target_shape, target_shape>>

\* C10: when a trial accepts its candidate, the crop window is non-empty and
\* inside the image.
C10_CropWindowInsideImage ==
    Accepted =>
        /\ ww >= 1 /\ hh >= 1
        /\ 0 <= x1 /\ x1 + ww <= w
        /\ 0 <= y1 /\ y1 + hh <= h

AllRejected(n) == \A i \in 1..n : ~hist[i]

RECURSIVE Flatten(_)
Flatten(ss) == IF ss = <<>> THEN <<>> ELSE Head(ss) \o Flatten(Tail(ss))

BagOf(s) == [x \in Range(s) |-> Cardinality({i \in DOMAIN s : s[i] = x})]
LabelsOf(s) == [i \in DOMAIN s |-> s[i].cls]
InputLabels == [i \in DOMAIN input |-> input[i][2]]
CeilDiv(a, b) == (a + b - 1) \div b

\* C6: a pass over K samples with batch size B yields ceil(K/B) batches,
\* all of B samples but the last, which holds the K - B*(ceil(K/B)-1) left
\* over, and the labels of the batches are the multiset of input labels.
C6_BatchesKeepRemainder ==
    fpc = "done" =>
        LET K == Len(input)
            n == CeilDiv(K, batch_size)
        IN  /\ Len(batches) = n
            /\ \A i \in 1..(n - 1) : Len(batches[i]) = batch_size
            /\ Len(batches[n]) = K - batch_size * (n - 1)
            /\ BagOf(LabelsOf(Flatten(batches))) = BagOf(InputLabels)

C6_Witness ==
    /\ fpc = "done"
    /\ Len(batches) >= 2
    /\ Len(batches[Len(batches)]) < batch_size
    /\ Cardinality(Range(InputLabels)) = 2

InOrder(flat) ==
    /\ Len(flat) = Len(input)
    /\ \A i \in DOMAIN input :
          flat[i] = [im |-> input[i][1], cls |-> input[i][2]]

RECURSIVE SumField(_, _)
SumField(rs, k) == IF rs = <<>> THEN 0 ELSE Head(rs)[k] + SumField(Tail(rs), k)

\* C7: the reported top-1 (top-5) error is the sum of the batches' top-1
\* (top-5) wrong counts over the sum of the batch sizes: 0 when nothing was
\* wrong, 1 when everything was, and neither figure depends on the other
\* counter's input. With no batch at all the sums are 0 and 0 is printed.
C7_RatioIsSumOverSum ==
    epc = "reported" =>
        LET w1 == SumField(results, 1)
            w5 == SumField(results, 2)
            n  == SumField(results, 3)
        IN  IF results = <<>>
            THEN report = <<<<0, 1>>, <<0, 1>>>>
            ELSE /\ report[1][2] > 0 /\ report[2][2] > 0
                 /\ report[1][1] * n = w1 * report[1][2]
                 /\ report[2][1] * n = w5 * report[2][2]
                 /\ w1 = 0 => report[1][1] = 0
                 /\ w1 = n => report[1][1] = report[1][2]
                 /\ w5 = 0 => report[2][1] = 0
                 /\ w5 = n => report[2][1] = report[2][2]

C7_Witness ==
    /\ epc = "reported"
    /\ Len(results) >= 2
    /\ SumField(results, 1) > SumField(results, 2)
    /\ SumField(results, 2) > 0
    /\ SumField(results, 1) < SumField(results, 3)

====
